---------------------------- MODULE Spec2Model ----------------------------
(***************************************************************************)
(* Model of src/server.py: RequestHandler.do_GET and the helpers it calls  *)
(* (handle_file, handle_error, send_content), together with the rule       *)
(* classes case_default_page .. case_always_fail and the list Cases.       *)
(*                                                                         *)
(* Representation.  A Python str is a sequence of characters, each a       *)
(* one-character TLA+ string; the Latin-1 character U+00E9 is written      *)
(* "U+E9".  A Python bytes object is a sequence of bytes: an ASCII byte is *)
(* written as its character, the other bytes as "xC3", "xA9", "xFF".       *)
(* The file system is a function from locations (a sequence of names from  *)
(* the top directory "/") to nodes.                                        *)
(***************************************************************************)
EXTENDS Integers, Sequences, FiniteSets, TLC

VARIABLES fs, pc, path, client_address, date_time, read_ok, wire, stderr,
          resolved, raised, nreq, nsent

vars == <<fs, pc, path, client_address, date_time, read_ok, wire, stderr,
          resolved, raised, nreq, nsent>>

(***************************************************************************)
(* Bounds of the model.                                                    *)
(***************************************************************************)
MaxRequests == 2

(***************************************************************************)
(* Python str / bytes primitives.                                          *)
(***************************************************************************)
WhiteSpace == {" ", "\t", "\n", "\r", "\f"}

Digits == <<"0", "1", "2", "3", "4", "5", "6", "7", "8", "9">>

Front(s) == SubSeq(s, 1, Len(s) - 1)

RECURSIVE lstrip(_, _)
lstrip(s, chars) ==
    IF s # <<>> /\ Head(s) \in chars THEN lstrip(Tail(s), chars) ELSE s

RECURSIVE rstrip(_, _)
rstrip(s, chars) ==
    IF s # <<>> /\ s[Len(s)] \in chars THEN rstrip(Front(s), chars) ELSE s

strip(s) == rstrip(lstrip(s, WhiteSpace), WhiteSpace)

endswith(s, suffix) ==
    /\ Len(s) >= Len(suffix)
    /\ SubSeq(s, Len(s) - Len(suffix) + 1, Len(s)) = suffix

\* str(n) for a natural number n
RECURSIVE str(_)
str(n) == IF n < 10 THEN <<Digits[n + 1]>>
          ELSE str(n \div 10) \o <<Digits[(n % 10) + 1]>>

\* int(s) for a string of decimal digits; -1 when s is not one
RECURSIVE int(_)
int(s) ==
    IF s = <<>> THEN -1
    ELSE LET d == {i \in 1..10 : Digits[i] = s[Len(s)]}
         IN  IF d = {} THEN -1
             ELSE IF Len(s) = 1 THEN (CHOOSE i \in d : TRUE) - 1
             ELSE LET hi == int(Front(s))
                  IN  IF hi < 0 THEN -1
                      ELSE 10 * hi + (CHOOSE i \in d : TRUE) - 1

\* s.encode('utf-8'): U+00E9 takes two bytes, an ASCII character one
\* (the string is encoded by halves to keep the evaluation shallow)
RECURSIVE utf8_encode(_)
utf8_encode(s) ==
    IF s = <<>> THEN <<>>
    ELSE IF Len(s) = 1
    THEN (IF s[1] = "U+E9" THEN <<"xC3", "xA9">> ELSE s)
    ELSE LET h == Len(s) \div 2
         IN  utf8_encode(SubSeq(s, 1, h)) \o utf8_encode(SubSeq(s, h + 1, Len(s)))

NonAscii == {"xC3", "xA9", "xFF"}

\* the least i >= from with s[i] \in cs, or 0
find_any(s, cs, from) ==
    LET I == {i \in from..Len(s) : s[i] \in cs}
    IN  IF I = {} THEN 0 ELSE CHOOSE i \in I : \A j \in I : i <= j

\* s.find(c, from), counted from 1; 0 when c is not found
find(s, c, from) == find_any(s, {c}, from)

\* b.decode('utf-8'): [ok, val]; ok is FALSE where Python raises
\* UnicodeDecodeError.  A run of ASCII bytes is copied in one step.
RECURSIVE utf8_decode(_)
utf8_decode(b) ==
    LET i == find_any(b, NonAscii, 1)
    IN  IF i = 0 THEN [ok |-> TRUE, val |-> b]
        ELSE IF b[i] = "xC3" /\ Len(b) > i /\ b[i + 1] = "xA9"
        THEN LET r == utf8_decode(SubSeq(b, i + 2, Len(b)))
             IN  [ok |-> r.ok,
                  val |-> SubSeq(b, 1, i - 1) \o <<"U+E9">> \o r.val]
        ELSE [ok |-> FALSE, val |-> <<>>]

\* sub in s
contains(s, sub) ==
    \E i \in 1..(Len(s) - Len(sub) + 1) : SubSeq(s, i, i + Len(sub) - 1) = sub

(***************************************************************************)
(* Exceptions: the type and str(e).  None stands for "nothing raised".     *)
(***************************************************************************)
Exception(type, text) == [type |-> type, text |-> text]

None == Exception("None", <<>>)

IsDigits(s) == s # <<>> /\ \A i \in 1..Len(s) : \E j \in 1..10 : Digits[j] = s[i]

\* str.format(**kw) for templates whose replacement fields are plain names:
\* "{{" and "}}" are literal braces, "{name}" is replaced by kw[name]
\* (KeyError when absent, IndexError for an empty or numeric name), a lone
\* brace is a ValueError.  Literal text is copied a run at a time.
RECURSIVE format(_, _)
format(s, kw) ==
    IF s = <<>> THEN [val |-> <<>>, exc |-> None]
    ELSE IF Head(s) = "{" /\ Len(s) >= 2 /\ s[2] = "{"
    THEN LET r == format(SubSeq(s, 3, Len(s)), kw)
         IN  [val |-> <<"{">> \o r.val, exc |-> r.exc]
    ELSE IF Head(s) = "{"
    THEN LET close == find(s, "}", 2)
             name == SubSeq(s, 2, close - 1)
         IN  IF Len(s) = 1
             THEN [val |-> <<>>, exc |-> Exception("ValueError",
                     <<"S","i","n","g","l","e"," ","'","{","'"," ","e","n",
                       "c","o","u","n","t","e","r","e","d"," ","i","n"," ",
                       "f","o","r","m","a","t"," ","s","t","r","i","n","g">>)]
             ELSE IF close = 0
             THEN [val |-> <<>>, exc |-> Exception("ValueError",
                     <<"e","x","p","e","c","t","e","d"," ","'","}","'"," ",
                       "b","e","f","o","r","e"," ","e","n","d"," ","o","f",
                       " ","s","t","r","i","n","g">>)]
             ELSE IF name = <<>> \/ IsDigits(name)
             THEN [val |-> <<>>, exc |-> Exception("IndexError",
                     <<"R","e","p","l","a","c","e","m","e","n","t"," ","i",
                       "n","d","e","x"," ","0"," ","o","u","t"," ","o","f",
                       " ","r","a","n","g","e"," ","f","o","r"," ","p","o",
                       "s","i","t","i","o","n","a","l"," ","a","r","g","s",
                       " ","t","u","p","l","e">>)]
             ELSE IF name \notin DOMAIN kw
             THEN [val |-> <<>>, exc |-> Exception("KeyError",
                     <<"'">> \o name \o <<"'">>)]
             ELSE LET r == format(SubSeq(s, close + 1, Len(s)), kw)
                  IN  [val |-> kw[name] \o r.val, exc |-> r.exc]
    ELSE IF Head(s) = "}" /\ Len(s) >= 2 /\ s[2] = "}"
    THEN LET r == format(SubSeq(s, 3, Len(s)), kw)
         IN  [val |-> <<"}">> \o r.val, exc |-> r.exc]
    ELSE IF Head(s) = "}"
    THEN [val |-> <<>>, exc |-> Exception("ValueError",
            <<"S","i","n","g","l","e"," ","'","}","'"," ","e","n","c","o","u",
              "n","t","e","r","e","d"," ","i","n"," ","f","o","r","m","a","t",
              " ","s","t","r","i","n","g">>)]
    ELSE LET i == find_any(s, {"{", "}"}, 1)
             n == IF i = 0 THEN Len(s) ELSE i - 1
             r == format(SubSeq(s, n + 1, Len(s)), kw)
         IN  [val |-> SubSeq(s, 1, n) \o r.val, exc |-> r.exc]

(***************************************************************************)
(* The file system and os.path.                                            *)
(***************************************************************************)
\* os.getcwd(): the directory the server was started in
getcwd == <<"/","w","w","w">>

index_html == <<"i","n","d","e","x",".","h","t","m","l">>

Root == <<<<"w","w","w">>>>

Outside == <<<<"s","e","c","r","e","t",".","b","i","n">>>>

Locations ==
    { <<>>, Root, Outside,
      Root \o <<index_html>>,
      Root \o <<<<"n","o","t","e","s",".","t","x","t">>>>,
      Root \o <<<<"d","a","t","a",".","b","i","n">>>>,
      Root \o <<<<"p","a","g","e",".","h","t","m","l">>>>,
      Root \o <<<<"s","u","b","d","i","r">>>>,
      Root \o <<<<"f","i","f","o">>>> }

Node(kind, data) == [kind |-> kind, data |-> data]

Absent == Node("absent", <<>>)

Dir == Node("dir", <<>>)

\* the location no path component leads to (ENOENT, ENOTDIR)
NoEnt == << <<>> >>

\* posixpath.join(a, b)
os_path_join(a, b) ==
    IF b # <<>> /\ Head(b) = "/" THEN b
    ELSE IF a = <<>> \/ a[Len(a)] = "/" THEN a \o b
    ELSE a \o <<"/">> \o b

\* the components of p between its "/" separators
RECURSIVE split(_)
split(p) ==
    LET i == find(p, "/", 1)
    IN  IF i = 0 THEN <<p>>
        ELSE <<SubSeq(p, 1, i - 1)>> \o split(SubSeq(p, i + 1, Len(p)))

\* the kernel's path walk: every component is looked up in a directory,
\* "" and "." stay, ".." goes to the parent (the top is its own parent)
RECURSIVE namei(_, _, _)
namei(f, cur, names) ==
    IF names = <<>> THEN cur
    ELSE IF cur \notin DOMAIN f THEN NoEnt
    ELSE IF f[cur].kind # "dir" THEN NoEnt
    ELSE LET n == Head(names)
             next == IF n = <<>> \/ n = <<".">> THEN cur
                     ELSE IF n = <<".", ".">>
                     THEN (IF cur = <<>> THEN cur ELSE Front(cur))
                     ELSE Append(cur, n)
         IN  namei(f, next, Tail(names))

stat(f, p) ==
    LET l == namei(f, <<>>, split(p))
    IN  IF l \in DOMAIN f THEN f[l] ELSE Absent

os_path_exists(f, p) == stat(f, p).kind # "absent"

os_path_isfile(f, p) == stat(f, p).kind = "file"


(***************************************************************************)
(* Responses on the wire.  A response is the status of send_response, the  *)
(* headers of send_header in order, and the bytes written to wfile.        *)
(***************************************************************************)
Response(status, headers, body) ==
    [status |-> status, headers |-> headers, body |-> body]

\* the handler object: self.path, self.client_address, self.command and the
\* value date_time_string() returns during this request; full_path is the
\* attribute the rule classes attach (has_full_path: hasattr(self, 'full_path'))
Handler(p, addr, now) ==
    [path |-> p, client_address |-> addr, command |-> <<"G","E","T">>,
     date_time |-> now, full_path |-> <<>>, has_full_path |-> FALSE]

Error_Page ==
    <<" "," "," "," "," "," "," "," ","<","h","t","m","l",">","\n"," "," ",
      " "," "," "," "," "," ","<","b","o","d","y",">","\n"," "," "," "," ",
      " "," "," "," ","<","h","1",">","{","c","o","d","e","}"," ","-"," ","E",
      "r","r","o","r"," ","a","c","c","e","s","s","i","n","g"," ","{","p","a",
      "t","h","}","<","/","h","1",">","\n"," "," "," "," "," "," "," "," ",
      "<","p",">","{","m","s","g","}","<","/","p",">","\n"," "," "," "," ",
      " "," "," "," ","<","h","r",">","\n"," "," "," "," "," "," "," "," ",
      "<","p",">","S","e","r","v","e","r"," ","T","i","m","e",":"," ","{","d",
      "a","t","e","_","t","i","m","e","}","<","/","p",">","\n"," "," "," ",
      " "," "," "," "," ","<","/","b","o","d","y",">","\n"," "," "," "," ",
      " "," "," "," ","<","/","h","t","m","l",">","\n"," "," "," "," "," ",
      " "," "," ">>

\* RequestHandler.send_content(content, status)
send_content(self, content, status) ==
    Response(status,
             << <<<<"C","o","n","t","e","n","t","-","t","y","p","e">>,
                     <<"t","e","x","t","/","h","t","m","l">>>>,
                <<<<"C","o","n","t","e","n","t","-","L","e","n","g","t","h">>,
                  str(Len(content))>> >>,
             content)

\* Error_Page filled in by handle_error
error_content(self, code, msg) ==
    format(Error_Page,
           (<<"c","o","d","e">> :> str(code)) @@ (<<"p","a","t","h">> :> self.path)
           @@ (<<"m","s","g">> :> msg) @@ (<<"d","a","t","e","_","t","i","m",
                                             "e">> :> self.date_time)).val

\* a handle_error that leaves the status to send_content's default
handle_error_default_status(self, code, msg) ==
    send_content(self, utf8_encode(error_content(self, code, msg)), 200)

\* a handle_error that takes the length before encoding
handle_error_str_length(self, code, msg) ==
    Response(code,
             << <<<<"C","o","n","t","e","n","t","-","t","y","p","e">>,
                     <<"t","e","x","t","/","h","t","m","l">>>>,
                <<<<"C","o","n","t","e","n","t","-","L","e","n","g","t","h">>,
                  str(Len(error_content(self, code, msg)))>> >>,
             utf8_encode(error_content(self, code, msg)))

\* RequestHandler.handle_error(code, msg): the response it sends
handle_error(self, code, msg) ==
    LET content_str == error_content(self, code, msg)
    IN  send_content(self, utf8_encode(content_str), code)

\* the values handle_file substitutes in an .html file
values(self) ==
    (<<"d","a","t","e","_","t","i","m","e">> :> self.date_time)
    @@ (<<"c","l","i","e","n","t","_","h","o","s","t">> :> self.client_address[1])
    @@ (<<"c","l","i","e","n","t","_","p","o","r","t">> :> str(self.client_address[2]))
    @@ (<<"c","o","m","m","a","n","d">> :> self.command)
    @@ (<<"p","a","t","h">> :> self.path)

\* handle_file once open() and read() have returned page: the responses
\* sent and the exception raised.  Only the final else branch sends.
handle_file_page(self, full_path, page) ==
    IF endswith(full_path, <<".","h","t","m","l">>)
    THEN LET page_str == utf8_decode(page)
         IN  IF ~page_str.ok
             THEN [sent |-> <<>>,
                   exc |-> Exception("UnicodeDecodeError",
                     <<"'","u","t","f","-","8","'"," ","c","o","d","e","c",
                       " ","c","a","n","'","t"," ","d","e","c","o","d","e",
                       " ","b","y","t","e"," ","0","x","f","f"," ","i","n",
                       " ","p","o","s","i","t","i","o","n"," ","0",":"," ",
                       "i","n","v","a","l","i","d"," ","s","t","a","r","t",
                       " ","b","y","t","e">>)]
             ELSE [sent |-> <<>>,
                   exc |-> format(page_str.val, values(self)).exc]
    ELSE IF endswith(full_path, <<".","t","x","t">>)
    THEN [sent |-> <<>>, exc |-> None]
    ELSE [sent |-> <<Response(200,
             << <<<<"C","o","n","t","e","n","t","-","T","y","p","e">>,
                     <<"a","p","p","l","i","c","a","t","i","o","n","/","o",
                       "c","t","e","t","-","s","t","r","e","a","m">>>>,
                <<<<"C","o","n","t","e","n","t","-","L","e","n","g","t","h">>,
                   str(Len(page))>> >>,
             page)>>,
          exc |-> None]

\* a handle_file whose except clause sends nothing and returns
handle_file_swallow(self, f, full_path, ok) ==
    IF ~ok \/ ~os_path_isfile(f, full_path)
    THEN [sent |-> <<>>, exc |-> None]
    ELSE handle_file_page(self, full_path, stat(f, full_path).data)

\* RequestHandler.handle_file(full_path): the responses it sends and the
\* exception that leaves it.  ok is FALSE when open() or read() raises
\* IOError; the except clause then evaluates self.send_error_page, an
\* attribute the class does not have (the def at line 220 is local to
\* handle_file), so AttributeError leaves the method.
handle_file(self, f, full_path, ok) ==
    IF ~ok \/ ~os_path_isfile(f, full_path)
    THEN [sent |-> <<>>,
          exc |-> Exception("AttributeError",
            <<"'","R","e","q","u","e","s","t","H","a","n","d","l","e","r","'",
              " ","o","b","j","e","c","t"," ","h","a","s"," ","n","o"," ","a",
              "t","t","r","i","b","u","t","e"," ","'","s","e","n","d","_","e",
              "r","r","o","r","_","p","a","g","e","'">>)]
    ELSE handle_file_page(self, full_path, stat(f, full_path).data)

\* what a handler method was called with: handle_error(code, msg) or
\* handle_file(full_path)
Call(method, code, msg, full_path) ==
    [call |-> method, code |-> code, msg |-> msg, full_path |-> full_path]

NoCall == Call("none", 0, <<>>, <<>>)

\* The body of RequestHandler.do_GET: the responses written, the lines
\* printed to sys.stderr, the branch taken and the exception caught.
do_GET_body(self, f, ok) ==
    LET current_dir == getcwd
        req_path == lstrip(self.path, {"/"})
        file_path == IF self.path = <<"/">> \/ strip(self.path) = <<>>
                     THEN os_path_join(current_dir, index_html)
                     ELSE os_path_join(current_dir, req_path)
    IN  IF ~os_path_exists(f, file_path)
        THEN [sent |-> <<handle_error(self, 404,
                          <<"R","e","q","u","e","s","t","e","d"," ","f","i",
                            "l","e"," ","d","o","e","s"," ","n","o","t"," ",
                            "e","x","i","s","t",".">>)>>,
              printed |-> <<>>, exc |-> None,
              resolved |-> Call("handle_error", 404,
                               <<"R","e","q","u","e","s","t","e","d"," ","f",
                                 "i","l","e"," ","d","o","e","s"," ","n","o",
                                 "t"," ","e","x","i","s","t",".">>, <<>>)]
        ELSE IF ~os_path_isfile(f, file_path)
        THEN [sent |-> <<handle_error(self, 404,
                          <<"P","a","t","h"," ","i","s"," ","n","o","t"," ",
                            "a"," ","f","i","l","e"," ","(","d","i","r","e",
                            "c","t","o","r","y"," ","l","i","s","t","i","n",
                            "g"," ","n","o","t"," ","s","u","p","p","o","r",
                            "t","e","d",")",".">>)>>,
              printed |-> <<>>, exc |-> None,
              resolved |-> Call("handle_error", 404,
                               <<"P","a","t","h"," ","i","s"," ","n","o","t",
                                 " ","a"," ","f","i","l","e"," ","(","d","i",
                                 "r","e","c","t","o","r","y"," ","l","i","s",
                                 "t","i","n","g"," ","n","o","t"," ","s","u",
                                 "p","p","o","r","t","e","d",")",".">>, <<>>)]
        ELSE LET r == handle_file(self, f, file_path, ok)
             IN  IF r.exc = None
                 THEN [sent |-> r.sent, printed |-> <<>>, exc |-> None,
                       resolved |-> Call("handle_file", 0, <<>>, file_path)]
                 ELSE [sent |-> r.sent \o <<handle_error(self, 500,
                          <<"A","n"," ","u","n","e","x","p","e","c","t","e",
                            "d"," ","e","r","r","o","r"," ","o","c","c","u",
                            "r","r","e","d",":"," ">> \o r.exc.text)>>,
                       printed |-> <<<<"U","n","e","x","p","e","c","t","e",
                                       "d"," ","E","r","r","o","r",":"," ">> \o r.exc.text>>,
                       exc |-> r.exc,
                       resolved |-> Call("handle_file", 0, <<>>, file_path)]


(***************************************************************************)
(* The rule classes.  test returns its result and the handler as test      *)
(* leaves it (full_path attached); act returns the handler method it calls.*)
(***************************************************************************)
\* a default-page test that does not look for index.html
case_default_page_test_any(self, f) ==
    IF self.path = <<"/">> \/ strip(self.path) = <<>>
    THEN [result |-> TRUE,
          self |-> [self EXCEPT !.full_path = os_path_join(getcwd, index_html),
                                !.has_full_path = TRUE]]
    ELSE [result |-> FALSE, self |-> self]

case_default_page_test(self, f) ==
    IF self.path = <<"/">> \/ strip(self.path) = <<>>
    THEN LET full_path == os_path_join(getcwd, index_html)
         IN  [result |-> os_path_exists(f, full_path)
                         /\ os_path_isfile(f, full_path),
              self |-> [self EXCEPT !.full_path = full_path,
                                    !.has_full_path = TRUE]]
    ELSE [result |-> FALSE, self |-> self]

case_default_page_act(self) == Call("handle_file", 0, <<>>, self.full_path)

case_no_file_test(self, f) ==
    LET req_path == lstrip(self.path, {"/"})
        full_path == os_path_join(getcwd, req_path)
    IN  [result |-> ~os_path_exists(f, full_path),
         self |-> [self EXCEPT !.full_path = full_path,
                               !.has_full_path = TRUE]]

case_no_file_act(self) ==
    Call("handle_error", 404,
         <<"'">> \o self.path \o <<"'"," ","n","o","t"," ","f","o","u","n",
                                   "d">>, <<>>)

case_existing_file_test(self, f) ==
    IF ~self.has_full_path THEN [result |-> FALSE, self |-> self]
    ELSE [result |-> os_path_isfile(f, self.full_path), self |-> self]

case_existing_file_act(self) == Call("handle_file", 0, <<>>, self.full_path)

case_always_fail_test(self, f) == [result |-> TRUE, self |-> self]

case_always_fail_act(self) ==
    Call("handle_error", 404,
         <<"U","n","k","n","o","w","n"," ","o","b","j","e","c","t"," ","'">> \o self.path
             \o <<"'"," ","o","r"," ","d","i","r","e","c","t","o","r","y"," ",
                  "l","i","s","t","i","n","g"," ","d","i","s","a","b","l","e",
                  "d",".">>, <<>>)

\* RequestHandler.Cases
Cases == <<"case_default_page", "case_no_file", "case_existing_file",
           "case_always_fail">>

test(case, self, f) ==
    CASE case = "case_default_page" -> case_default_page_test(self, f)
      [] case = "case_no_file" -> case_no_file_test(self, f)
      [] case = "case_existing_file" -> case_existing_file_test(self, f)
      [] case = "case_always_fail" -> case_always_fail_test(self, f)

act(case, self) ==
    CASE case = "case_default_page" -> case_default_page_act(self)
      [] case = "case_no_file" -> case_no_file_act(self)
      [] case = "case_existing_file" -> case_existing_file_act(self)
      [] case = "case_always_fail" -> case_always_fail_act(self)

\* The rule chain evaluated in order: the first case whose test succeeds
\* acts, the later cases are not tested.
RECURSIVE run_cases(_, _, _)
run_cases(cases, self, f) ==
    IF cases = <<>> THEN NoCall
    ELSE LET t == test(Head(cases), self, f)
         IN  IF t.result THEN act(Head(cases), t.self)
             ELSE run_cases(Tail(cases), t.self, f)

(***************************************************************************)
(* The inputs: request paths as parse_request leaves them in self.path     *)
(* (a word of the request line: not empty, no white space), client         *)
(* addresses, clock readings and the content of the server's directory.    *)
(***************************************************************************)
Paths ==
    { <<"/">>, <<"/","i","n","d","e","x",".","h","t","m","l">>,
            <<"/","n","o","t","e","s",".","t","x","t">>,
                    <<"/","d","a","t","a",".","b","i","n">>,
      <<"d","a","t","a",".","b","i","n">>,
              <<"/","p","a","g","e",".","h","t","m","l">>,
                      <<"/","s","u","b","d","i","r">>, <<"/","f","i","f","o">>,
      <<"/","m","i","s","s","i","n","g",".","t","x","t">>,
              <<"/","c","a","f","U+E9","s",".","t","x","t">>,
                      <<"/","n","o","t","e","s",".","t","x","t","/">>,
      <<"/","s","u","b","d","i","r","/",".",".","/","n","o","t","e","s",".",
        "t","x","t">>, <<"/",".",".","/","s","e","c","r","e","t",".","b","i",
                         "n">>, <<"/",".",".","/","w","w","w","/","d","a","t",
                                  "a",".","b","i","n">> }

Clients == { <<<<"1","2","7",".","0",".","0",".","1">>, 5000>>, <<
        <<"1","0",".","0",".","0",".","7">>, 41234>> }

DateTimes == { <<"W","e","d",","," ","0","4"," ","N","o","v"," ","2","0","2",
                 "6"," ","0","8",":","3","0",":","0","0"," ","G","M","T">>,
               <<"W","e","d",","," ","0","4"," ","N","o","v"," ","2","0","2",
                 "6"," ","0","8",":","3","0",":","0","1"," ","G","M","T">> }

IndexNodes ==
    { Absent, Dir,
      Node("file", <<"<","p",">","{","p","a","t","h","}","<","/","p",">">>),
      Node("file", <<"<","p",">","{","u","s","e","r","}","<","/","p",">">>),
      Node("file", <<"xFF">>) }

NotesNodes == { Absent, Node("file", <<"h","e","l","l","o">>) }

DataNodes == { Absent, Node("file", <<"xFF", "a", "{">>) }

FileSystem(index, notes, data) ==
    [l \in Locations |->
        CASE l = Root \o <<index_html>> -> index
          [] l = Root \o <<<<"n","o","t","e","s",".","t","x","t">>>> -> notes
          [] l = Root \o <<<<"d","a","t","a",".","b","i","n">>>> -> data
          [] l = Root \o <<<<"p","a","g","e",".","h","t","m","l">>>> ->
                Node("file", utf8_encode(
                  <<"<","i",">","U+E9"," ","{","c","o","m","m","a","n","d",
                    "}"," ","{","c","l","i","e","n","t","_","h","o","s","t",
                    "}",":","{","c","l","i","e","n","t","_","p","o","r","t",
                    "}"," ","{","d","a","t","e","_","t","i","m","e","}","<",
                    "/","i",">">>))
          [] l = Root \o <<<<"f","i","f","o">>>> -> Node("other", <<>>)
          [] l = Outside -> Node("file", <<"t","o","p"," ","s","e","c","r",
                                           "e","t">>)
          [] OTHER -> Dir]

FileSystems ==
    { FileSystem(i, n, d) : i \in IndexNodes, n \in NotesNodes, d \in DataNodes }

(***************************************************************************)
(* The server: the listener hands one GET at a time to do_GET.             *)
(***************************************************************************)
Init ==
    /\ fs \in FileSystems
    /\ pc = "idle"
    /\ path = <<>>
    /\ client_address = <<<<>>, 0>>
    /\ date_time = <<>>
    /\ read_ok = TRUE
    /\ wire = <<>>
    /\ stderr = <<>>
    /\ resolved = NoCall
    /\ raised = None
    /\ nreq = 0
    /\ nsent = 0

\* HTTPServer.serve_forever accepts a connection and parse_request sets
\* self.path and self.client_address
Request(p, addr) ==
    /\ pc = "idle"
    /\ nreq < MaxRequests
    /\ pc' = "do_GET"
    /\ path' = p
    /\ client_address' = addr
    /\ nreq' = nreq + 1
    /\ wire' = <<>>
    /\ stderr' = <<>>
    /\ resolved' = NoCall
    /\ raised' = None
    /\ UNCHANGED <<fs, date_time, read_ok, nsent>>

\* RequestHandler.do_GET; now is the clock reading, ok whether open() and
\* read() succeed on a file that passed the checks
do_GET(now, ok) ==
    /\ pc = "do_GET"
    /\ LET r == do_GET_body(Handler(path, client_address, now), fs, ok)
       IN  /\ wire' = wire \o r.sent
           /\ nsent' = nsent + Len(r.sent)
           /\ stderr' = stderr \o r.printed
           /\ resolved' = r.resolved
           /\ raised' = r.exc
    /\ date_time' = now
    /\ read_ok' = ok
    /\ pc' = "returned"
    /\ UNCHANGED <<fs, path, client_address, nreq>>

\* the connection is closed after the response (HTTP/1.0 default)
finish ==
    /\ pc = "returned"
    /\ pc' = "idle"
    /\ path' = <<>>
    /\ client_address' = <<<<>>, 0>>
    /\ date_time' = <<>>
    /\ read_ok' = TRUE
    /\ wire' = <<>>
    /\ stderr' = <<>>
    /\ resolved' = NoCall
    /\ raised' = None
    /\ UNCHANGED <<fs, nreq, nsent>>

Next ==
    \/ \E p \in Paths, addr \in Clients : Request(p, addr)
    \/ \E now \in DateTimes, ok \in BOOLEAN : do_GET(now, ok)
    \/ finish

Spec == Init /\ [][Next]_vars


(***************************************************************************)
(* Vocabulary of the properties.                                           *)
(***************************************************************************)
Upper == <<"A","B","C","D","E","F","G","H","I","J","K","L","M","N","O","P",
           "Q","R","S","T","U","V","W","X","Y","Z">>

Lower == <<"a","b","c","d","e","f","g","h","i","j","k","l","m","n","o","p",
           "q","r","s","t","u","v","w","x","y","z">>

\* s.lower()
lower(s) ==
    [i \in 1..Len(s) |->
        IF \E k \in 1..26 : Upper[k] = s[i]
        THEN Lower[CHOOSE k \in 1..26 : Upper[k] = s[i]]
        ELSE s[i]]

\* the values of a response's header name (header names are matched
\* case-insensitively)
header(r, name) ==
    {r.headers[i][2] : i \in {k \in 1..Len(r.headers) :
                                lower(r.headers[k][1]) = lower(name)}}

\* the handler of the request being served
Self == Handler(path, client_address, date_time)

\* the request path, leading "/" stripped, joined with the server root
Target == os_path_join(getcwd, lstrip(path, {"/"}))

IndexPath == os_path_join(getcwd, index_html)

\* the target lies in the server root or below
InsideRoot(full_path) ==
    LET l == namei(fs, <<>>, split(full_path))
    IN  Len(l) >= 1 /\ SubSeq(l, 1, 1) = Root

\* open, read, decode or substitution fails for the file at full_path
ServingFails(full_path) ==
    \/ ~read_ok
    \/ /\ endswith(full_path, <<".","h","t","m","l">>)
       /\ LET d == utf8_decode(stat(fs, full_path).data)
          IN  ~d.ok \/ format(d.val, values(Self)).exc # None

\* the body a served file has: templated for .html, the bytes otherwise
ExpectedBody(full_path) ==
    LET page == stat(fs, full_path).data
    IN  IF endswith(full_path, <<".","h","t","m","l">>)
        THEN utf8_encode(format(utf8_decode(page).val, values(Self)).val)
        ELSE page

ExpectedType(full_path) ==
    IF endswith(full_path, <<".","h","t","m","l">>) THEN
            <<"t","e","x","t","/","h","t","m","l">>
    ELSE IF endswith(full_path, <<".","t","x","t">>) THEN
            <<"t","e","x","t","/","p","l","a","i","n">>
    ELSE <<"a","p","p","l","i","c","a","t","i","o","n","/","o","c","t","e",
           "t","-","s","t","r","e","a","m">>

LengthIsExact(r) ==
    /\ header(r, <<"C","o","n","t","e","n","t","-","T","y","p","e">>) # {}
    /\ Cardinality(header(r,
            <<"C","o","n","t","e","n","t","-","L","e","n","g","t","h">>)) = 1
    /\ \A v \in header(r,
            <<"C","o","n","t","e","n","t","-","L","e","n","g","t","h">>) : int(v) = Len(r.body)

(***************************************************************************)
(* C1: every GET ends with exactly one response written to the client      *)
(* when do_GET returns.  Fails: an .html or .txt file that is read         *)
(* without error is never sent.                                            *)
(***************************************************************************)
C1_RespondedExactlyOnce ==
    pc = "returned" => Len(wire) = 1

(***************************************************************************)
(* C2: a path that resolves to a regular file under the root (served       *)
(* without a failure) gets status 200, a Content-Length equal to the byte  *)
(* length of the body, and the Content-Type of its extension.              *)
(***************************************************************************)
C2_RegularFileIs200 ==
    (/\ pc = "returned"
     /\ path # <<"/">>
     /\ os_path_isfile(fs, Target)
     /\ InsideRoot(Target)
     /\ ~ServingFails(Target))
    => /\ Len(wire) = 1
       /\ wire[1].status = 200
       /\ wire[1].body = ExpectedBody(Target)
       /\ LengthIsExact(wire[1])
       /\ header(wire[1], <<"C","o","n","t","e","n","t","-","T","y","p","e">>) = {ExpectedType(Target)}

(***************************************************************************)
(* C3: with index.html a regular file in the root, GET "/" returns 200     *)
(* with index.html's content after the placeholders are substituted.       *)
(***************************************************************************)
C3_DefaultPageIs200 ==
    (/\ pc = "returned"
     /\ path = <<"/">> \/ path = <<>>
     /\ os_path_isfile(fs, IndexPath)
     /\ ~ServingFails(IndexPath))
    => /\ Len(wire) = 1
       /\ wire[1].status = 200
       /\ wire[1].body = ExpectedBody(IndexPath)

(***************************************************************************)
(* C4: a path other than "/" whose target does not exist gets status 404   *)
(* and a body that contains the requested path.                            *)
(***************************************************************************)
C4_MissingIs404WithPath ==
    (/\ pc = "returned"
     /\ path # <<"/">>
     /\ ~os_path_exists(fs, Target))
    => /\ Len(wire) = 1
       /\ wire[1].status = 404
       /\ contains(wire[1].body, utf8_encode(path))

C4_Witness ==
    /\ pc = "returned"
    /\ path = <<"/","c","a","f","U+E9","s",".","t","x","t">>
    /\ ~os_path_exists(fs, Target)
    /\ Len(wire) = 1
    /\ wire[1].status = 404

(***************************************************************************)
(* C5: when the requested path does not exist, the 404 page carries the    *)
(* message "'<path>' not found" (the message of case_no_file.act).         *)
(***************************************************************************)
C5_NotFoundMessage ==
    (/\ pc = "returned"
     /\ path # <<"/">>
     /\ ~os_path_exists(fs, Target))
    => \E i \in 1..Len(wire) :
          contains(wire[i].body, utf8_encode(case_no_file_act(Self).msg))

(***************************************************************************)
(* C6: a path that resolves to a directory, or to anything that exists and *)
(* is not a regular file, gets status 404 with the message "Unknown object *)
(* '<path>' or directory listing disabled." (case_always_fail.act).        *)
(***************************************************************************)
C6_UnknownObjectMessage ==
    (/\ pc = "returned"
     /\ path # <<"/">>
     /\ os_path_exists(fs, Target)
     /\ ~os_path_isfile(fs, Target))
    => /\ Len(wire) = 1
       /\ wire[1].status = 404
       /\ contains(wire[1].body, utf8_encode(case_always_fail_act(Self).msg))

(***************************************************************************)
(* C7: a path with ".." segments whose target lies outside the server root *)
(* never gets the content of that file: no 200 response is sent.           *)
(***************************************************************************)
C7_NoTraversal ==
    (/\ pc = "returned"
     /\ \E i \in 1..Len(split(path)) : split(path)[i] = <<".", ".">>
     /\ ~InsideRoot(Target))
    => \A i \in 1..Len(wire) :
          /\ wire[i].status # 200
          /\ wire[i].body # stat(fs, Target).data

(***************************************************************************)
(* C8: a failure while serving a file that passed the existence and        *)
(* regular-file checks (open or read fails, the bytes of an .html file are *)
(* not UTF-8, an .html file has an unsupported placeholder) ends in one    *)
(* 500 response carrying the HTML error page.                              *)
(***************************************************************************)
C8_FailureIs500 ==
    (/\ pc = "returned"
     /\ resolved.call = "handle_file"
     /\ ServingFails(resolved.full_path))
    => /\ Len(wire) = 1
       /\ wire[1].status = 500
       /\ header(wire[1], <<"C","o","n","t","e","n","t","-","T","y","p","e">>) = {
               <<"t","e","x","t","/","h","t","m","l">>}
       /\ contains(wire[1].body,
                   utf8_encode(<<"<","h","1",">","5","0","0"," ","-"," ","E",
                                 "r","r","o","r"," ","a","c","c","e","s","s",
                                 "i","n","g"," ">> \o path
                               \o <<"<","/","h","1",">">>))

C8_Witness ==
    /\ pc = "returned"
    /\ resolved.call = "handle_file"
    /\ ~read_ok
    /\ raised.type = "AttributeError"
    /\ Len(wire) = 1
    /\ wire[1].status = 500

(***************************************************************************)
(* C9: every response written, 200, 404 or 500, has a Content-Type header  *)
(* and a Content-Length header whose value is the byte length of the body. *)
(***************************************************************************)
C9_HeaderContract ==
    \A i \in 1..Len(wire) : LengthIsExact(wire[i])

C9_Witness ==
    /\ pc = "returned"
    /\ Len(wire) = 1
    /\ wire[1].status = 404
    /\ contains(wire[1].body, <<"xC3", "xA9">>)
    /\ LengthIsExact(wire[1])

(***************************************************************************)
(* C10: what do_GET calls agrees with the rule chain Cases evaluated       *)
(* first-match-wins: the same handler method, the same status code for an  *)
(* error, the same file path for handle_file.                              *)
(***************************************************************************)
C10_InlineAgreesWithCases ==
    pc = "returned" =>
        LET c == run_cases(Cases, Self, fs)
        IN  /\ c.call = resolved.call
            /\ c.code = resolved.code
            /\ c.full_path = resolved.full_path
            /\ c.call = "handle_error" =>
                  Len(wire) = 1 /\ wire[1].status = c.code

C10_Witness ==
    /\ pc = "returned"
    /\ path = <<"/">>
    /\ ~os_path_isfile(fs, IndexPath)
    /\ run_cases(Cases, Self, fs) = case_always_fail_act(Self)
    /\ resolved.call = "handle_error"

============================================================================
